---------------------------- MODULE Spec2Model ----------------------------
(***************************************************************************)
(* Model of the SUKL API proxy (sukl-api/app):                             *)
(*   - SearchClient (search_client.py): token refresh and the retry loops  *)
(*     _post_with_retry / _get_with_retry, one coroutine per call;         *)
(*   - _build_drug_filters (routes/drugs.py) and _build_pharmacy_filters   *)
(*     (routes/pharmacies.py): the OData filter builders;                  *)
(*   - search_documents (routes/documents.py): normalization of the raw    *)
(*     result; search_pharmacies: the criterion guard; the handlers'       *)
(*     error responses.                                                    *)
(* A call is a coroutine: it runs atomically between two awaits, so the    *)
(* actions below are the code between suspension points (the HTTP await    *)
(* and the asyncio.sleep await).                                           *)
(***************************************************************************)
EXTENDS Integers, Sequences, FiniteSets, TLC

VARIABLES
    pc,          \* per call: "off" | "idle" | "http" | "sleep" | "done"
    method,      \* per call: "search" | "hybrid_search" | "get_document"
    attempt,     \* per call: loop variable of `for attempt in range(MAX_RETRIES)`
    last_error,  \* per call: local last_error (None or a SearchError)
    reqs,        \* per call: HTTP requests sent so far (with the token they carried)
    sleeps,      \* per call: durations passed to asyncio.sleep so far
    hist,        \* per call: what each attempt got back (response / timeout / error)
    outcome,     \* per call: how the call ended
    tokres,      \* per call: results of its credential.get_token calls ("ok" | "fail")
    hdr,         \* self._client.headers["Authorization"] (0 = not set)
    cancelled,   \* per call: where its task was cancelled, if it was
    fpc,         \* filter builder: "off" | "input" | "built"
    fin,         \* filter builder: the arguments of _build_drug_filters
    fout,        \* filter builder: its return value
    ppc,         \* pharmacies: "off" | "input" | "built" | "answered"
    pin,         \* pharmacies: the query parameters of the request
    pout,        \* pharmacies: the builder's result / what search_pharmacies did
    npc,         \* documents: "off" | "input" | "done"
    nin,         \* documents: the decoded backend result given to search_documents
    nout,        \* documents: the HTTP response of search_documents
    endpoint,    \* per call: the route handler that makes the call
    response     \* per call: the HTTP response of that handler

callvars == <<pc, method, attempt, last_error, reqs, sleeps, hist, outcome, tokres, hdr,
              cancelled>>
filtervars == <<fpc, fin, fout>>
pharmvars == <<ppc, pin, pout>>
docvars == <<npc, nin, nout>>
routevars == <<endpoint, response>>
handlervars == <<pharmvars, docvars, routevars>>
vars == <<pc, method, attempt, last_error, reqs, sleeps, hist, outcome, tokres, hdr,
          cancelled, fpc, fin, fout, ppc, pin, pout, npc, nin, nout, endpoint, response>>

-----------------------------------------------------------------------------
(* Bounds *)

NumCalls == 2      \* call slots on the one SearchClient
NumBodies == 2     \* distinct well-formed JSON response bodies
NumExc == 1        \* distinct transport-error messages (str(e))

Calls == 1..NumCalls

-----------------------------------------------------------------------------
(* search_client.py: configuration *)

MAX_RETRIES == 3

\* Variant: a doubling schedule.
RETRY_DELAYS_doubling == <<1, 2, 4>>

RETRY_DELAYS == <<1, 3, 8>>

\* Variant: 400 is retried as well.
RETRYABLE_STATUS_plus400 == {400, 408, 429, 500, 502, 503, 504}

RETRYABLE_STATUS == {408, 429, 500, 502, 503, 504}

(* The backend: statuses it may answer with, and response bodies.  Body 0  *)
(* is a text that is not JSON; bodies 1..NumBodies are JSON documents.     *)
Statuses == {200, 400, 404, 408, 429, 500, 502, 503, 504}
WireBodies == 0..NumBodies
ExcIds == 1..NumExc
Methods == {"search", "hybrid_search", "get_document"}

-----------------------------------------------------------------------------
(* Values *)

\* resp.text: the body as text; str(e); the two literal details.
Text(b) == [src |-> "resp.text", id |-> b]
StrExc(e) == [src |-> "str(e)", id |-> e]
RequestTimeout == [src |-> "Request timeout", id |-> 0]
AllRetriesExhausted == [src |-> "All retries exhausted", id |-> 0]
NoDetail == [src |-> "", id |-> 0]

\* resp.json(): json.loads of the body; raises on a body that is not JSON.
Decodable(b) == b # 0
Json(b) == [doc |-> b]
NoDoc == [doc |-> 0]

\* class SearchError(Exception)
SearchError(status, detail) == [none |-> FALSE, status |-> status, detail |-> detail]
None == [none |-> TRUE, status |-> 0, detail |-> NoDetail]

\* How a call ends.
Pending == [kind |-> "pending", status |-> 0, detail |-> NoDetail, value |-> NoDoc]
Returned(v) == [kind |-> "returned", status |-> 0, detail |-> NoDetail, value |-> v]
ReturnedNone == [kind |-> "not_found", status |-> 0, detail |-> NoDetail, value |-> NoDoc]
Raised(err) == [kind |-> "SearchError", status |-> err.status, detail |-> err.detail,
                value |-> NoDoc]
RaisedAuth == [kind |-> "AuthError", status |-> 0, detail |-> NoDetail, value |-> NoDoc]
RaisedDecode == [kind |-> "JSONDecodeError", status |-> 0, detail |-> NoDetail,
                 value |-> NoDoc]

\* What an attempt got back.
RespEvent(st, b) == [ev |-> "resp", status |-> st, id |-> b]
TimeoutEvent == [ev |-> "timeout", status |-> 0, id |-> 0]
ErrorEvent(e) == [ev |-> "error", status |-> 0, id |-> e]

\* No asyncio.CancelledError was thrown into the call's task.
NotCancelled == [at |-> "no", nreqs |-> 0, nsleeps |-> 0, nhist |-> 0]

\* The token the credential hands out to call c (fresh per acquisition).
TokenOf(c) == c


-----------------------------------------------------------------------------
(* search_client.py: the pieces of the retry loops *)

\* Variant: the 404 sentinel in the POST loop as well.
IsNotFound_anyMethod(m, st) == st = 404

\* _get_with_retry only: `if resp.status_code == 404: return None`
IsNotFound(m, st) == m = "get_document" /\ st = 404

\* `if resp.status_code in RETRYABLE_STATUS`
IsRetryable(st) == st \in RETRYABLE_STATUS

\* The retryable-status branch sleeps unconditionally:
\* `await asyncio.sleep(RETRY_DELAYS[attempt])` then `continue`.
SleepAfterStatus(att) == TRUE

\* The two except branches sleep under `if attempt < MAX_RETRIES - 1`.
SleepAfterException(att) == att < MAX_RETRIES - 1

\* Variant: a timeout recorded with the status of a network error.
TimeoutError_as502 == SearchError(502, RequestTimeout)

\* `last_error = SearchError(504, "Request timeout")`
TimeoutError == SearchError(504, RequestTimeout)

\* `last_error = SearchError(502, str(e))`
NetworkError(e) == SearchError(502, StrExc(e))

\* Variant: only the first failure is recorded.
Record_keepFirst(prev, err) == IF prev.none THEN err ELSE prev

\* `last_error = SearchError(resp.status_code, resp.text)` and the two
\* assignments above: the new error replaces the recorded one.
Record(prev, err) == err

\* `raise last_error or SearchError(500, "All retries exhausted")`
RaiseLast(le) == Raised(IF le.none THEN SearchError(500, AllRetriesExhausted) ELSE le)

\* `return resp.json()`
ReturnJson(b) == IF Decodable(b) THEN Returned(Json(b)) ELSE RaisedDecode

\* self._client.post / self._client.get: the request is built from the
\* client's headers as they are when the attempt starts.
Send(c, att, h) ==
    /\ pc' = [pc EXCEPT ![c] = "http"]
    /\ attempt' = [attempt EXCEPT ![c] = att]
    /\ reqs' = [reqs EXCEPT ![c] = Append(@, [token |-> h, attempt |-> att])]
    /\ UNCHANGED outcome

\* The call ends: a return or a raise leaves the coroutine.
Finish(c, res) ==
    /\ pc' = [pc EXCEPT ![c] = "done"]
    /\ outcome' = [outcome EXCEPT ![c] = res]
    /\ UNCHANGED <<attempt, reqs>>

\* End of one loop iteration: the next `attempt` of range(MAX_RETRIES), or
\* the statement after the loop.
Continue(c, le) ==
    IF attempt[c] + 1 < MAX_RETRIES
    THEN Send(c, attempt[c] + 1, hdr)
    ELSE Finish(c, RaiseLast(le))

\* `await asyncio.sleep(RETRY_DELAYS[attempt])`
Sleep(c) ==
    /\ pc' = [pc EXCEPT ![c] = "sleep"]
    /\ sleeps' = [sleeps EXCEPT ![c] = Append(@, RETRY_DELAYS[attempt[c] + 1])]
    /\ UNCHANGED <<attempt, reqs, outcome>>

-----------------------------------------------------------------------------
(* search_client.py: the operations *)

\* search / hybrid_search / get_document up to the first await:
\* _refresh_token() succeeds, then the retry loop sends attempt 0.
Invoke(c, m) ==
    /\ pc[c] = "idle"
    /\ method' = [method EXCEPT ![c] = m]
    /\ tokres' = [tokres EXCEPT ![c] = Append(@, "ok")]
    /\ hdr' = TokenOf(c)
    /\ Send(c, 0, TokenOf(c))
    /\ UNCHANGED <<last_error, sleeps, hist, cancelled, filtervars, handlervars>>

\* Variant: the token failure is swallowed and the retry loop starts anyway.
InvokeAuthFails_swallowed(c, m) ==
    /\ pc[c] = "idle"
    /\ method' = [method EXCEPT ![c] = m]
    /\ tokres' = [tokres EXCEPT ![c] = Append(@, "fail")]
    /\ Send(c, 0, hdr)
    /\ UNCHANGED <<hdr, last_error, sleeps, hist, cancelled, filtervars, handlervars>>

\* _refresh_token() raises: credential.get_token failed; the exception
\* leaves search / hybrid_search / get_document.
InvokeAuthFails(c, m) ==
    /\ pc[c] = "idle"
    /\ method' = [method EXCEPT ![c] = m]
    /\ tokres' = [tokres EXCEPT ![c] = Append(@, "fail")]
    /\ Finish(c, RaisedAuth)
    /\ UNCHANGED <<hdr, last_error, sleeps, hist, cancelled, filtervars, handlervars>>

\* The awaited post/get returns a response with status st and body b.
Respond(c, st, b) ==
    /\ pc[c] = "http"
    /\ hist' = [hist EXCEPT ![c] = Append(@, RespEvent(st, b))]
    /\ IF st = 200
       THEN /\ Finish(c, ReturnJson(b))
            /\ UNCHANGED <<last_error, sleeps>>
       ELSE IF IsNotFound(method[c], st)
       THEN /\ Finish(c, ReturnedNone)
            /\ UNCHANGED <<last_error, sleeps>>
       ELSE IF IsRetryable(st)
       THEN /\ last_error' = [last_error EXCEPT ![c] = Record(@, SearchError(st, Text(b)))]
            /\ IF SleepAfterStatus(attempt[c])
               THEN Sleep(c)
               ELSE Continue(c, last_error'[c]) /\ UNCHANGED sleeps
       ELSE /\ Finish(c, Raised(SearchError(st, Text(b))))
            /\ UNCHANGED <<last_error, sleeps>>
    /\ UNCHANGED <<method, tokres, hdr, cancelled, filtervars, handlervars>>

\* Common part of the two except branches.
Except(c, ev, err) ==
    /\ pc[c] = "http"
    /\ hist' = [hist EXCEPT ![c] = Append(@, ev)]
    /\ last_error' = [last_error EXCEPT ![c] = Record(@, err)]
    /\ IF SleepAfterException(attempt[c])
       THEN Sleep(c)
       ELSE Continue(c, last_error'[c]) /\ UNCHANGED sleeps
    /\ UNCHANGED <<method, tokres, hdr, cancelled, filtervars, handlervars>>

\* `except httpx.TimeoutException`
TimeoutException(c) == Except(c, TimeoutEvent, TimeoutError)

\* `except httpx.HTTPError as e`
HTTPError(c, e) == Except(c, ErrorEvent(e), NetworkError(e))

\* asyncio.sleep returns; the loop goes on to its next iteration.
Wake(c) ==
    /\ pc[c] = "sleep"
    /\ Continue(c, last_error[c])
    /\ UNCHANGED <<method, last_error, sleeps, hist, tokres, hdr, cancelled, filtervars, handlervars>>

-----------------------------------------------------------------------------
(* Strings: a str is a sequence of one-character strings; an optional     *)
(* argument (str | None, bool | None) is a record with a `some` flag.      *)

MaxShort == 3      \* length of the freely chosen part of an atc input

NoneArg == [some |-> FALSE, s |-> <<>>]
Str(s) == [some |-> TRUE, s |-> s]
NoneBool == [some |-> FALSE, b |-> FALSE]
Bool(b) == [some |-> TRUE, b |-> b]

\* Python truthiness of `str | None`: None and "" are falsy.
Truthy(a) == a.some /\ a.s # <<>>

UpperLetters == {"N", "B", "E"}
LowerLetters == {"n", "b", "e"}
Digits == {"0", "1", "2"}
Whitespace == {" "}

\* str.upper(), character by character
UpperChar(ch) ==
    CASE ch = "n" -> "N"
      [] ch = "b" -> "B"
      [] ch = "e" -> "E"
      [] OTHER -> ch

Upper(s) == [i \in 1..Len(s) |-> UpperChar(s[i])]

\* str.strip(): drop leading and trailing whitespace
RECURSIVE LStrip(_)
LStrip(s) == IF s # <<>> /\ Head(s) \in Whitespace THEN LStrip(Tail(s)) ELSE s

RECURSIVE RStrip(_)
RStrip(s) ==
    IF s # <<>> /\ s[Len(s)] \in Whitespace THEN RStrip(SubSeq(s, 1, Len(s) - 1)) ELSE s

Strip(s) == RStrip(LStrip(s))

\* str.replace("'", "''")
RECURSIVE EscapeQuotes(_)
EscapeQuotes(s) ==
    IF s = <<>> THEN <<>>
    ELSE (IF Head(s) = "'" THEN <<"'", "'">> ELSE <<Head(s)>>) \o EscapeQuotes(Tail(s))

\* re.fullmatch(r"[A-Z0-9]+", s)
InAtcClass(ch) == ch \in UpperLetters \cup Digits

\* Variant: re.match, which accepts any string with a matching prefix.
FullMatchAtc_prefixOnly(s) == s # <<>> /\ InAtcClass(s[1])

FullMatchAtc(s) == s # <<>> /\ \A i \in 1..Len(s) : InAtcClass(s[i])

\* " and ".join(parts)
RECURSIVE JoinAnd(_)
JoinAnd(parts) ==
    IF Len(parts) = 1 THEN Head(parts)
    ELSE Head(parts) \o <<" ", "a", "n", "d", " ">> \o JoinAnd(Tail(parts))

-----------------------------------------------------------------------------
(* routes/drugs.py: literals of the f-strings *)

\* "search.ismatch('"
L_ismatch_open == <<"s", "e", "a", "r", "c", "h", ".", "i", "s", "m", "a", "t", "c", "h", "(", "'">>

\* "*', 'atc')"
L_atc_prefix_close == <<"*", "'", ",", " ", "'", "a", "t", "c", "'", ")">>

\* "atc eq '"
L_atc_eq_open == <<"a", "t", "c", " ", "e", "q", " ", "'">>

\* "'"
L_quote == <<"'">>

\* "', 'drzitelNazev')"
L_holder_close == <<"'", ",", " ", "'", "d", "r", "z", "i", "t", "e", "l", "N", "a", "z", "e", "v", "'", ")">>

\* "vydej eq '"
L_vydej_eq_open == <<"v", "y", "d", "e", "j", " ", "e", "q", " ", "'">>

\* "doping eq "
L_doping_eq == <<"d", "o", "p", "i", "n", "g", " ", "e", "q", " ">>

\* "true"
L_true == <<"t", "r", "u", "e">>

\* "false"
L_false == <<"f", "a", "l", "s", "e">>

\* "dodavky eq '1'"
L_dodavky_1 == <<"d", "o", "d", "a", "v", "k", "y", " ", "e", "q", " ", "'", "1", "'">>

\* "dodavky eq '0'"
L_dodavky_0 == <<"d", "o", "d", "a", "v", "k", "y", " ", "e", "q", " ", "'", "0", "'">>

\* "', 'formaNazev')"
L_form_close == <<"'", ",", " ", "'", "f", "o", "r", "m", "a", "N", "a", "z", "e", "v", "'", ")">>


-----------------------------------------------------------------------------
(* routes/drugs.py: _build_drug_filters *)

\* DISPENSING_MAP and `dispensing.lower()`; dispensing values are whole words.
DISPENSING_MAP ==
    [k \in {"prescription", "otc", "restricted", "reserved", "otc-restricted"} |->
        CASE k = "prescription" -> "R"
          [] k = "otc" -> "F"
          [] k = "restricted" -> "L"
          [] k = "reserved" -> "V"
          [] k = "otc-restricted" -> "P"]

LowerWord(w) ==
    CASE w = "OTC" -> "otc"
      [] w = "Prescription" -> "prescription"
      [] w = "Hospital" -> "hospital"
      [] OTHER -> w

\* `atc_clean = atc.strip().upper()`
AtcClean(s) == Upper(Strip(s))

\* Variant: `<=` instead of `<`.
IsAtcPrefix_inclusive(code) == Len(code) <= 7

\* `elif len(atc_clean) < 7` : shorter than a full code means prefix search
IsAtcPrefix(code) == Len(code) < 7

\* lines 159-168
AtcParts(atc) ==
    IF ~Truthy(atc) THEN <<>>
    ELSE IF ~FullMatchAtc(AtcClean(atc.s)) THEN <<>>
    ELSE IF IsAtcPrefix(AtcClean(atc.s))
    THEN << L_ismatch_open \o AtcClean(atc.s) \o L_atc_prefix_close >>
    ELSE << L_atc_eq_open \o AtcClean(atc.s) \o L_quote >>

\* lines 170-174
HolderParts(holder) ==
    IF Truthy(holder)
    THEN << L_ismatch_open \o EscapeQuotes(holder.s) \o L_holder_close >>
    ELSE <<>>

\* lines 176-179; the dispensing word is "" for the empty string
DispensingParts(dispensing) ==
    IF dispensing.some /\ dispensing.w # ""
    THEN IF LowerWord(dispensing.w) \in DOMAIN DISPENSING_MAP
         THEN << L_vydej_eq_open \o <<DISPENSING_MAP[LowerWord(dispensing.w)]>> \o L_quote >>
         ELSE <<>>
    ELSE <<>>

\* lines 181-182: `str(doping).lower()`
DopingParts(doping) ==
    IF doping.some
    THEN << L_doping_eq \o (IF doping.b THEN L_true ELSE L_false) >>
    ELSE <<>>

\* lines 184-188
AvailableParts(available) ==
    IF available.some
    THEN (IF available.b THEN <<L_dodavky_1>> ELSE <<L_dodavky_0>>)
    ELSE <<>>

\* lines 190-192
FormParts(form) ==
    IF Truthy(form)
    THEN << L_ismatch_open \o EscapeQuotes(form.s) \o L_form_close >>
    ELSE <<>>

\* `return " and ".join(parts) if parts else None`
JoinParts(parts) == IF parts # <<>> THEN Str(JoinAnd(parts)) ELSE NoneArg

build_drug_filters(atc, holder, dispensing, doping, available, form) ==
    JoinParts(AtcParts(atc) \o HolderParts(holder) \o DispensingParts(dispensing)
              \o DopingParts(doping) \o AvailableParts(available) \o FormParts(form))

\* search_drugs calls the builder with the request's parameters.
BuildDrugFilters ==
    /\ fpc = "input"
    /\ fpc' = "built"
    /\ fout' = build_drug_filters(fin.atc, fin.holder, fin.dispensing, fin.doping,
                                  fin.available, fin.form)
    /\ UNCHANGED <<fin, callvars, handlervars>>

-----------------------------------------------------------------------------
(* routes/pharmacies.py: _build_pharmacy_filters *)

\* "mesto eq '"
L_mesto_eq_open == <<"m", "e", "s", "t", "o", " ", "e", "q", " ", "'">>

\* "pohotovost eq "
L_pohotovost_eq == <<"p", "o", "h", "o", "t", "o", "v", "o", "s", "t", " ", "e", "q", " ">>

\* "zasilkovyProdej eq "
L_zasilkovy_eq == <<"z", "a", "s", "i", "l", "k", "o", "v", "y", "P", "r", "o", "d", "e", "j", " ", "e", "q", " ">>

\* "typLekarny eq '"
L_typ_eq_open == <<"t", "y", "p", "L", "e", "k", "a", "r", "n", "y", " ", "e", "q", " ", "'">>

\* "psc eq '"
L_psc_eq_open == <<"p", "s", "c", " ", "e", "q", " ", "'">>

PHARMACY_TYPE_MAP ==
    [k \in {"pharmacy", "hospital", "outlet"} |->
        CASE k = "pharmacy" -> <<"Z">>
          [] k = "hospital" -> <<"N", "O">>
          [] k = "outlet" -> <<"V">>]

\* Variant: the city is interpolated as given.
CityParts_raw(city) ==
    IF Truthy(city) THEN << L_mesto_eq_open \o city.s \o L_quote >> ELSE <<>>

\* lines 147-149
CityParts(city) ==
    IF Truthy(city)
    THEN << L_mesto_eq_open \o EscapeQuotes(city.s) \o L_quote >>
    ELSE <<>>

\* lines 151-152
EmergencyParts(emergency) ==
    IF emergency.some
    THEN << L_pohotovost_eq \o (IF emergency.b THEN L_true ELSE L_false) >>
    ELSE <<>>

\* lines 154-155
MailOrderParts(mail_order) ==
    IF mail_order.some
    THEN << L_zasilkovy_eq \o (IF mail_order.b THEN L_true ELSE L_false) >>
    ELSE <<>>

\* lines 157-160
PharmacyTypeParts(pharmacy_type) ==
    IF pharmacy_type.some /\ pharmacy_type.w # ""
    THEN IF LowerWord(pharmacy_type.w) \in DOMAIN PHARMACY_TYPE_MAP
         THEN << L_typ_eq_open \o PHARMACY_TYPE_MAP[LowerWord(pharmacy_type.w)] \o L_quote >>
         ELSE <<>>
    ELSE <<>>

\* lines 162-164: `postal_code.replace("'", "''").strip()`
PostalCodeParts(postal_code) ==
    IF Truthy(postal_code)
    THEN << L_psc_eq_open \o Strip(EscapeQuotes(postal_code.s)) \o L_quote >>
    ELSE <<>>

build_pharmacy_filters(city, emergency, mail_order, pharmacy_type, postal_code) ==
    JoinParts(CityParts(city) \o EmergencyParts(emergency) \o MailOrderParts(mail_order)
              \o PharmacyTypeParts(pharmacy_type) \o PostalCodeParts(postal_code))

\* The builder applied to the request's parameters (search_pharmacies, line 61).
BuildPharmacyFilters ==
    /\ ppc = "input"
    /\ ppc' = "built"
    /\ pout' = [kind |-> "filter", search |-> NoneArg, query_type |-> "",
                filter |-> build_pharmacy_filters(pin.city, pin.emergency, pin.mail_order,
                                                  pin.pharmacy_type, pin.postal_code)]
    /\ UNCHANGED <<pin, callvars, filtervars, docvars, routevars>>

-----------------------------------------------------------------------------
(* Requests given to the builder *)

AtcChars == {"N", "b", "2", "$", " "}

RECURSIVE StringsUpTo(_, _)
StringsUpTo(chars, n) ==
    IF n = 0 THEN {<<>>}
    ELSE LET shorter == StringsUpTo(chars, n - 1)
         IN  shorter \cup {Append(s, ch) : s \in shorter, ch \in chars}

\* Tails that bring an atc input to the full length (7) and beyond.
AtcTails == {<<>>, <<"B", "e", "0", "1">>, <<"2", "b", "E", "0", "1">>}

AtcInputs ==
    {NoneArg} \cup {Str(s \o t) : s \in StringsUpTo(AtcChars, MaxShort), t \in AtcTails}

HolderInputs == {NoneArg, Str(<<"N", "'", "b">>)}
DispensingInputs ==
    {[some |-> FALSE, w |-> ""]} \cup {[some |-> TRUE, w |-> w] : w \in {"", "OTC", "bogus"}}
BoolInputs == {NoneBool, Bool(TRUE), Bool(FALSE)}
FormInputs == {NoneArg, Str(<<"'", "e">>)}

\* Free-text values (holder, form, city, postal code): short strings with
\* quotes and blanks.
MaxText == 3       \* length of a free-text value

TextChars == {"'", "b", " "}
TextInputs == {NoneArg} \cup {Str(s) : s \in StringsUpTo(TextChars, MaxText)}
PharmacyTypeInputs ==
    {[some |-> FALSE, w |-> ""]} \cup {[some |-> TRUE, w |-> w] : w \in {"", "Hospital", "bogus"}}

-----------------------------------------------------------------------------
(* One call on a fresh SearchClient *)

InitFilterOff ==
    /\ fpc = "off"
    /\ fin = [atc |-> NoneArg, holder |-> NoneArg, dispensing |-> [some |-> FALSE, w |-> ""],
              doping |-> NoneBool, available |-> NoneBool, form |-> NoneArg]
    /\ fout = NoneArg

NoPharmacyRequest ==
    [q |-> NoneArg, city |-> NoneArg, emergency |-> NoneBool, mail_order |-> NoneBool,
     pharmacy_type |-> [some |-> FALSE, w |-> ""], postal_code |-> NoneArg]

NoPharmacyResult == [kind |-> "none", search |-> NoneArg, filter |-> NoneArg, query_type |-> ""]

InitPharmOff ==
    /\ ppc = "off"
    /\ pin = NoPharmacyRequest
    /\ pout = NoPharmacyResult

InitDocsOff ==
    /\ npc = "off"
    /\ nin = <<>>
    /\ nout = <<>>

NoResponse == [status |-> 0, body |-> <<>>]

InitRoutesOff ==
    /\ endpoint = [c \in Calls |-> "none"]
    /\ response = [c \in Calls |-> NoResponse]

InitCalls(active) ==
    /\ pc = [c \in Calls |-> IF c \in active THEN "idle" ELSE "off"]
    /\ method = [c \in Calls |-> "search"]
    /\ attempt = [c \in Calls |-> 0]
    /\ last_error = [c \in Calls |-> None]
    /\ reqs = [c \in Calls |-> <<>>]
    /\ sleeps = [c \in Calls |-> <<>>]
    /\ hist = [c \in Calls |-> <<>>]
    /\ outcome = [c \in Calls |-> Pending]
    /\ tokres = [c \in Calls |-> <<>>]
    /\ hdr = 0
    /\ cancelled = [c \in Calls |-> NotCancelled]

Init == InitCalls({1}) /\ InitFilterOff /\ InitPharmOff /\ InitDocsOff /\ InitRoutesOff

Next ==
    \/ \E c \in Calls, m \in Methods : Invoke(c, m)
    \/ \E c \in Calls, m \in Methods : InvokeAuthFails(c, m)
    \/ \E c \in Calls, st \in Statuses, b \in WireBodies : Respond(c, st, b)
    \/ \E c \in Calls : TimeoutException(c)
    \/ \E c \in Calls, e \in ExcIds : HTTPError(c, e)
    \/ \E c \in Calls : Wake(c)

Spec == Init /\ [][Next]_vars

-----------------------------------------------------------------------------
(* One request to the drug filter builder *)

InitFilter ==
    /\ InitCalls({})
    /\ InitPharmOff /\ InitDocsOff /\ InitRoutesOff
    /\ fpc = "input"
    /\ fin \in [atc : AtcInputs, holder : HolderInputs, dispensing : DispensingInputs,
                doping : BoolInputs, available : BoolInputs, form : FormInputs]
    /\ fout = NoneArg

NextFilter == BuildDrugFilters

SpecFilter == InitFilter /\ [][NextFilter]_vars

-----------------------------------------------------------------------------
(* One request with free-text values to either filter builder *)

InitDrugText ==
    /\ fpc = "input"
    /\ fin \in [atc : {NoneArg, Str(<<"N", "'">>), Str(<<"n", "2">>)},
                holder : TextInputs,
                dispensing : {[some |-> FALSE, w |-> ""], [some |-> TRUE, w |-> "OTC"]},
                doping : {NoneBool},
                available : {NoneBool, Bool(FALSE)},
                form : TextInputs]
    /\ fout = NoneArg

InitPharmacyText ==
    /\ ppc = "input"
    /\ pin \in [q : {NoneArg},
                city : TextInputs,
                emergency : {NoneBool, Bool(TRUE)},
                mail_order : {NoneBool},
                pharmacy_type : {[some |-> FALSE, w |-> ""], [some |-> TRUE, w |-> "Hospital"]},
                postal_code : TextInputs]
    /\ pout = NoPharmacyResult

InitEscape ==
    /\ InitCalls({})
    /\ InitDocsOff /\ InitRoutesOff
    /\ \/ InitDrugText /\ InitPharmOff
       \/ InitPharmacyText /\ InitFilterOff

NextEscape ==
    \/ BuildDrugFilters
    \/ BuildPharmacyFilters

SpecEscape == InitEscape /\ [][NextEscape]_vars


-----------------------------------------------------------------------------
(* Properties of the retry loops *)

Done(c) == pc[c] = "done"

\* The retryable statuses, the schedule and the attempt limit as specified.
SpecRetryable == {408, 429, 500, 502, 503, 504}
SpecSchedule == <<1, 3>>
SpecMaxAttempts == 3

IsResp(e, st) == e.ev = "resp" /\ e.status = st
IsRetryableFailure(e) ==
    \/ e.ev \in {"timeout", "error"}
    \/ e.ev = "resp" /\ e.status \in SpecRetryable

\* The SearchError an attempt's failure is recorded as.
ErrorOf(e) ==
    CASE e.ev = "timeout" -> SearchError(504, RequestTimeout)
      [] e.ev = "error" -> SearchError(502, StrExc(e.id))
      [] OTHER -> SearchError(e.status, Text(e.id))

(* C1: within one call a backoff sleep happens only between two attempts: *)
(* the sleeps of a call are 1s after the 1st failed attempt and 3s after   *)
(* the 2nd, and none follows the 3rd attempt; a call that got 500 three    *)
(* times has slept exactly twice when it raises.                           *)
C1_SleepsOnlyBetweenAttempts ==
    \A c \in Calls :
        /\ sleeps[c] \in {<<>>, <<1>>, <<1, 3>>}
        /\ (Done(c) /\ Len(hist[c]) = SpecMaxAttempts
              /\ (\A i \in 1..SpecMaxAttempts : IsResp(hist[c][i], 500)))
           => Len(sleeps[c]) = 2

(* C2: one call sends at most 3 HTTP requests, and once it has sent one it *)
(* ends with a decoded body, the not-found sentinel or a SearchError.      *)
C2_AtMostThreeRequestsThenResult ==
    \A c \in Calls :
        /\ Len(reqs[c]) <= SpecMaxAttempts
        /\ (Done(c) /\ reqs[c] # <<>>)
           => outcome[c].kind \in {"returned", "not_found", "SearchError"}

\* A status that is neither success, nor retryable, nor the GET sentinel.
IsFatalResp(c, e) ==
    /\ e.ev = "resp"
    /\ e.status # 200
    /\ e.status \notin SpecRetryable
    /\ ~(method[c] = "get_document" /\ e.status = 404)

(* C3: an attempt that receives a status that is not 200, not retryable    *)
(* (and, for get_document, not 404) ends the call at once with a           *)
(* SearchError of that status: it is the last attempt and no sleep follows *)
(* it.                                                                     *)
C3_FatalStatusRaisesAtOnce ==
    \A c \in Calls : \A i \in 1..Len(hist[c]) :
        IsFatalResp(c, hist[c][i]) =>
            /\ i = Len(hist[c])
            /\ Done(c)
            /\ outcome[c] = Raised(SearchError(hist[c][i].status, Text(hist[c][i].id)))
            /\ Len(reqs[c]) = i
            /\ Len(sleeps[c]) = i - 1

C3_Witness ==
    \E c \in Calls :
        /\ Done(c) /\ method[c] = "search"
        /\ Len(hist[c]) = 1 /\ IsResp(hist[c][1], 400)
        /\ Len(reqs[c]) = 1 /\ outcome[c].kind = "SearchError" /\ outcome[c].status = 400

(* C4: when all 3 attempts of a call fail with retryable failures, the     *)
(* SearchError raised is the one recorded for the last attempt.            *)
C4_LastFailureIsRaised ==
    \A c \in Calls :
        (/\ Done(c)
         /\ Len(hist[c]) = SpecMaxAttempts
         /\ \A i \in 1..SpecMaxAttempts : IsRetryableFailure(hist[c][i]))
        => outcome[c] = Raised(ErrorOf(hist[c][SpecMaxAttempts]))

C4_Witness ==
    \E c \in Calls :
        /\ Done(c) /\ Len(hist[c]) = 3
        /\ IsResp(hist[c][1], 500) /\ hist[c][2].ev = "timeout" /\ IsResp(hist[c][3], 503)
        /\ hist[c][1].id # hist[c][3].id
        /\ outcome[c].kind = "SearchError" /\ outcome[c].status = 503
        /\ outcome[c].detail = Text(hist[c][3].id)

(* C5: when the first 200 response (with a JSON body) arrives on attempt k *)
(* after k-1 retryable failures, exactly k attempts were made, the sleeps  *)
(* are the first k-1 durations of the schedule 1s, 3s in order, and the    *)
(* call returns the decoded body of that response.                         *)
C5_SuccessOnAttemptK ==
    \A c \in Calls : \A k \in 1..Len(hist[c]) :
        (IsResp(hist[c][k], 200) /\ Decodable(hist[c][k].id)) =>
            /\ k = Len(hist[c])
            /\ \A i \in 1..(k - 1) : IsRetryableFailure(hist[c][i])
            /\ Len(reqs[c]) = k
            /\ sleeps[c] = SubSeq(SpecSchedule, 1, k - 1)
            /\ Done(c)
            /\ outcome[c] = Returned(Json(hist[c][k].id))

C5_Witness ==
    \E c \in Calls :
        /\ Done(c) /\ Len(hist[c]) = 3
        /\ IsResp(hist[c][1], 500) /\ IsResp(hist[c][2], 500) /\ IsResp(hist[c][3], 200)
        /\ Len(reqs[c]) = 3 /\ sleeps[c] = <<1, 3>>
        /\ outcome[c].kind = "returned" /\ outcome[c].value = Json(hist[c][3].id)

(* C6: for get_document a 404 on any attempt ends the call with the        *)
(* not-found sentinel, with no further attempt and no sleep after it; for  *)
(* search and hybrid_search a 404 is raised as SearchError 404 after       *)
(* exactly that attempt.                                                   *)
C6_NotFoundSentinelOnlyForGet ==
    \A c \in Calls : \A i \in 1..Len(hist[c]) :
        IsResp(hist[c][i], 404) =>
            /\ i = Len(hist[c])
            /\ Done(c)
            /\ Len(reqs[c]) = i
            /\ Len(sleeps[c]) = i - 1
            /\ outcome[c] = IF method[c] = "get_document"
                            THEN ReturnedNone
                            ELSE Raised(SearchError(404, Text(hist[c][i].id)))

C6_Witness ==
    \E c \in Calls :
        /\ Done(c) /\ method[c] = "get_document"
        /\ Len(hist[c]) = 2 /\ IsResp(hist[c][1], 503) /\ IsResp(hist[c][2], 404)
        /\ outcome[c].kind = "not_found"

(* C7: a timeout is recorded as a retryable failure with status 504 and    *)
(* any other transport failure with status 502; after it the loop goes on  *)
(* to the next attempt if one remains, and if it was the last attempt the  *)
(* SearchError raised carries 504 or 502 respectively.                     *)
C7_TransportFailuresAreRetried ==
    \A c \in Calls : \A i \in 1..Len(hist[c]) :
        hist[c][i].ev \in {"timeout", "error"} =>
            LET st == IF hist[c][i].ev = "timeout" THEN 504 ELSE 502 IN
            /\ (i = Len(hist[c]) /\ ~Done(c)) =>
                  /\ ~last_error[c].none /\ last_error[c].status = st
                  /\ i < SpecMaxAttempts
                  /\ \/ pc[c] = "sleep" /\ Len(reqs[c]) = i
                     \/ pc[c] = "http" /\ Len(reqs[c]) = i + 1
            /\ i < SpecMaxAttempts => (Done(c) => Len(reqs[c]) > i)
            /\ i = SpecMaxAttempts =>
                  /\ Done(c)
                  /\ outcome[c].kind = "SearchError" /\ outcome[c].status = st

C7_Witness ==
    \E c \in Calls :
        /\ Done(c) /\ Len(hist[c]) = 3
        /\ hist[c][1].ev = "error" /\ hist[c][2].ev = "error" /\ hist[c][3].ev = "timeout"
        /\ outcome[c].kind = "SearchError" /\ outcome[c].status = 504

(* C8: when token acquisition fails in a call, the failure leaves the call *)
(* at once and is not a SearchError: no HTTP request is sent, no sleep     *)
(* happens and the token is not asked for again within the call.           *)
C8_AuthFailureIsImmediate ==
    \A c \in Calls :
        (\E i \in 1..Len(tokres[c]) : tokres[c][i] = "fail") =>
            /\ Done(c)
            /\ outcome[c] = RaisedAuth
            /\ reqs[c] = <<>>
            /\ sleeps[c] = <<>>
            /\ Len(tokres[c]) = 1

C8_Witness ==
    \E c \in Calls :
        /\ Done(c) /\ tokres[c] = <<"fail">> /\ method[c] = "get_document"
        /\ outcome[c].kind = "AuthError" /\ reqs[c] = <<>>

-----------------------------------------------------------------------------
(* Properties of the drug filter builder *)

\* The atc code as normalized by the builder, and what makes it a code.
NormalizedAtc == Upper(Strip(fin.atc.s))
IsCode(code) == code # <<>> /\ \A i \in 1..Len(code) : code[i] \in UpperLetters \cup Digits

\* The clauses of the parameters other than atc, in the builder's order.
OtherParts ==
    HolderParts(fin.holder) \o DispensingParts(fin.dispensing) \o DopingParts(fin.doping)
    \o AvailableParts(fin.available) \o FormParts(fin.form)

(* C9 as stated: for any atc input containing a character outside         *)
(* [A-Z0-9] the builder emits no atc clause, and the result is the one for *)
(* an absent atc.                                                          *)
C9_RawInputOutsideClassIsDropped ==
    (/\ fpc = "built"
     /\ fin.atc.some
     /\ \E i \in 1..Len(fin.atc.s) : fin.atc.s[i] \notin UpperLetters \cup Digits)
    => fout = JoinParts(OtherParts)

(* C9 amended: for any atc input whose normalized form (surrounding        *)
(* whitespace stripped, then uppercased) is empty or contains a character  *)
(* outside [A-Z0-9], the builder emits no atc clause and the result is the *)
(* one for an absent atc.                                                  *)
C9_NormalizedOutsideClassIsDropped ==
    (fpc = "built" /\ fin.atc.some /\ ~IsCode(NormalizedAtc))
    => fout = JoinParts(OtherParts)

C9_Witness ==
    /\ fpc = "built"
    /\ fin.atc = Str(<<"N", "2", "$">>)
    /\ fin.holder.some /\ fin.doping = Bool(FALSE)
    /\ fout.some
    /\ fout = JoinParts(OtherParts)

(* C10: for every atc input whose normalized form matches [A-Z0-9]+ the    *)
(* builder emits exactly one atc clause, first in the expression:          *)
(* search.ismatch('<CODE>*', 'atc') when the code has fewer than 7         *)
(* characters and atc eq '<CODE>' when it has 7 or more.                   *)
C10_AtcClause ==
    (fpc = "built" /\ fin.atc.some /\ IsCode(NormalizedAtc))
    => fout = JoinParts(
                << IF Len(NormalizedAtc) < 7
                   THEN L_ismatch_open \o NormalizedAtc \o L_atc_prefix_close
                   ELSE L_atc_eq_open \o NormalizedAtc \o L_quote >>
                \o OtherParts)

C10_Witness ==
    /\ fpc = "built"
    /\ fin.atc = Str(<<"N", "2", "b", "B", "e", "0", "1">>)
    /\ fin.form.some
    /\ ~fin.holder.some /\ ~fin.dispensing.some /\ ~fin.doping.some /\ ~fin.available.some
    /\ fout = Str(L_atc_eq_open \o <<"N", "2", "B", "B", "E", "0", "1">> \o L_quote
                  \o <<" ", "a", "n", "d", " ">> \o FormParts(fin.form)[1])


-----------------------------------------------------------------------------
(* Properties of the free-text values in both filter builders *)

\* The string literals of an OData filter expression, unescaped.  A quote
\* toggles between outside and inside a literal, so the odd-ranked quotes open
\* and the even-ranked ones close; a closing quote directly followed by an
\* opening one is a doubled quote, which stands for one quote character of the
\* same literal.
QuotePositions(expr) == {i \in 1..Len(expr) : expr[i] = "'"}

Rank(P, p) == Cardinality({x \in P : x <= p})

Nth(P, k) == CHOOSE p \in P : Rank(P, p) = k

\* ok is FALSE when a literal is left open at the end of the expression.
LiteralsOf(expr) ==
    LET Q == QuotePositions(expr)
        balanced == Cardinality(Q) % 2 = 0
        opens == {q \in Q : Rank(Q, q) % 2 = 1 /\ (q - 1) \notin Q}
        closes == {q \in Q : Rank(Q, q) % 2 = 0 /\ (q + 1) \notin Q}
        content(k) ==
            LET kept == {p \in (Nth(opens, k) + 1)..(Nth(closes, k) - 1) :
                            ~(p \in Q /\ Rank(Q, p) % 2 = 0)}
            IN  [j \in 1..Cardinality(kept) |-> expr[Nth(kept, j)]]
    IN  [ok |-> balanced,
         lits |-> IF balanced THEN [k \in 1..Cardinality(opens) |-> content(k)] ELSE <<>>]

\* A value with every single quote doubled.
RECURSIVE Doubled(_)
Doubled(v) ==
    IF v = <<>> THEN <<>>
    ELSE (IF Head(v) = "'" THEN <<"'", "'">> ELSE <<Head(v)>>) \o Doubled(Tail(v))

\* t occurs in s
Contains(s, t) == \E i \in 0..(Len(s) - Len(t)) : SubSeq(s, i + 1, i + Len(t)) = t

\* The literals the drug filter is meant to hold, in order.
DrugLiterals ==
    (IF fin.atc.some /\ IsCode(NormalizedAtc)
     THEN (IF Len(NormalizedAtc) < 7
           THEN <<NormalizedAtc \o <<"*">>, <<"a", "t", "c">>>>
           ELSE <<NormalizedAtc>>)
     ELSE <<>>)
    \o (IF Truthy(fin.holder) THEN <<fin.holder.s, <<"d", "r", "z", "i", "t", "e", "l", "N", "a", "z", "e", "v">>>> ELSE <<>>)
    \o (IF fin.dispensing.some /\ fin.dispensing.w = "OTC" THEN << <<"F">> >> ELSE <<>>)
    \o (IF fin.available.some THEN << IF fin.available.b THEN <<"1">> ELSE <<"0">> >> ELSE <<>>)
    \o (IF Truthy(fin.form) THEN <<fin.form.s, <<"f", "o", "r", "m", "a", "N", "a", "z", "e", "v">>>> ELSE <<>>)

\* The literals the pharmacy filter is meant to hold, in order; the postal
\* code as given (raw = TRUE) or without its surrounding whitespace.
PharmacyLiterals(raw) ==
    (IF Truthy(pin.city) THEN <<pin.city.s>> ELSE <<>>)
    \o (IF pin.pharmacy_type.some /\ pin.pharmacy_type.w = "Hospital"
        THEN << <<"N", "O">> >> ELSE <<>>)
    \o (IF Truthy(pin.postal_code)
        THEN << IF raw THEN pin.postal_code.s ELSE Strip(pin.postal_code.s) >>
        ELSE <<>>)

DrugValuesEscaped ==
    fpc = "built" =>
        /\ Truthy(fin.holder) => fout.some /\ Contains(fout.s, Doubled(fin.holder.s))
        /\ Truthy(fin.form) => fout.some /\ Contains(fout.s, Doubled(fin.form.s))
        /\ fout.some => LiteralsOf(fout.s) = [ok |-> TRUE, lits |-> DrugLiterals]

PharmacyValuesEscaped(raw) ==
    ppc = "built" =>
        /\ Truthy(pin.city) =>
              pout.filter.some /\ Contains(pout.filter.s, Doubled(pin.city.s))
        /\ Truthy(pin.postal_code) =>
              /\ pout.filter.some
              /\ Contains(pout.filter.s,
                          Doubled(IF raw THEN pin.postal_code.s ELSE Strip(pin.postal_code.s)))
        /\ pout.filter.some =>
              LiteralsOf(pout.filter.s) = [ok |-> TRUE, lits |-> PharmacyLiterals(raw)]

(* C11 as stated: for every free-text value (holder, form, city, postal    *)
(* code) the emitted clause contains the value with every single quote     *)
(* doubled, and the quoted literals of the expression are exactly the ones *)
(* the builder opened and closed, each holding its value.                  *)
C11_ValuesEscapedAsGiven == DrugValuesEscaped /\ PharmacyValuesEscaped(TRUE)

(* C11 amended: the same, where the postal code's value is the one left    *)
(* after its surrounding whitespace is stripped.                           *)
C11_ValuesEscaped == DrugValuesEscaped /\ PharmacyValuesEscaped(FALSE)

C11_Witness ==
    /\ ppc = "built"
    /\ pin.city = Str(<<"b", "'", "b">>)
    /\ pin.postal_code = Str(<<"'", "b", " ">>)
    /\ pout.filter.some
    /\ LiteralsOf(pout.filter.s).lits = << <<"b", "'", "b">>, <<"'", "b">> >>

-----------------------------------------------------------------------------
(* Document search: normalization of the raw backend result                 *)
(* (routes/documents.py, search_documents, after the awaited hybrid_search) *)

\* A JSON member of a raw document: absent from the object, null, or a string
\* (a sequence of characters).
Absent == [k |-> "absent", s |-> <<>>]
Null == [k |-> "null", s |-> <<>>]
JStr(s) == [k |-> "str", s |-> s]

\* A JSON number member; x is the number in thousandths.
NumAbsent == [k |-> "absent", x |-> 0]
NumNull == [k |-> "null", x |-> 0]
Num(x) == [k |-> "num", x |-> x]

\* dict.get(key, default): the default only when the key is absent; a null
\* member comes back as None.
Get(v, default) == IF v.k = "absent" THEN default ELSE v

\* Python truthiness of a member read with dict.get(key)
PyTruthy(v) == v.k = "str" /\ v.s # <<>>

\* a or b
Or(a, b) == IF PyTruthy(a) THEN a ELSE b

\* round(x, 2): thousandths to hundredths.  The inputs below have no value
\* half-way between two hundredths, where the binary representation decides.
Round2(x) == (x + 5) \div 10

CHUNK_LIMIT == 2000

\* The single character U+2026, one element of the output sequence.
Ellipsis == "..."

\* if len(chunk_text) > 2000: chunk_text = chunk_text[:2000] + ellipsis
TruncateChunk_atLimit(text) ==
    IF Len(text) >= CHUNK_LIMIT THEN SubSeq(text, 1, CHUNK_LIMIT) \o <<Ellipsis>> ELSE text

TruncateChunk(text) ==
    IF Len(text) > CHUNK_LIMIT THEN SubSeq(text, 1, CHUNK_LIMIT) \o <<Ellipsis>> ELSE text

NotPresent == [present |-> FALSE, v |-> Absent]
NoNumber == [present |-> FALSE, x |-> 0]

\* chunk_text = doc.get("chunk", ""); len(chunk_text) raises TypeError when
\* the member is null.
ChunkText(doc) ==
    LET chunk_text == Get(doc.chunk, JStr(<<>>))
    IN  IF chunk_text.k = "str"
        THEN [raised |-> FALSE, v |-> JStr(TruncateChunk(chunk_text.s))]
        ELSE [raised |-> TRUE, v |-> chunk_text]

\* captions = doc.get("@search.captions"); if captions: entry["highlight"] =
\* captions[0].get("highlights") or captions[0].get("text", "").  A null first
\* caption has no get: AttributeError.
Highlight(doc) ==
    IF doc.captions.k # "list" \/ doc.captions.items = <<>>
    THEN [raised |-> FALSE, h |-> NotPresent]
    ELSE LET c == doc.captions.items[1]
         IN  IF c.k = "null"
             THEN [raised |-> TRUE, h |-> NotPresent]
             ELSE [raised |-> FALSE,
                   h |-> [present |-> TRUE, v |-> Or(c.highlights, Get(c.text, JStr(<<>>)))]]

\* score = doc.get("@search.rerankerScore"); if score is not None:
\* entry["relevance"] = round(score, 2)
Relevance(doc) ==
    IF doc.score.k = "num" THEN [present |-> TRUE, x |-> Round2(doc.score.x)] ELSE NoNumber

FormatChunk(doc) ==
    [raised |-> ChunkText(doc).raised \/ Highlight(doc).raised,
     entry |-> [title |-> Get(doc.title, JStr(<<>>)),
                content |-> ChunkText(doc).v,
                highlight |-> Highlight(doc).h,
                relevance |-> Relevance(doc)]]

\* for doc in result.get("value", []): ... chunks.append(entry)
RECURSIVE FormatChunks(_)
FormatChunks(docs) ==
    IF docs = <<>> THEN [raised |-> FALSE, chunks |-> <<>>]
    ELSE LET first == FormatChunk(Head(docs))
             rest == FormatChunks(Tail(docs))
         IN  [raised |-> first.raised \/ rest.raised,
              chunks |-> <<first.entry>> \o rest.chunks]

\* a.get("score", 0) > 0.5; comparing None with a number raises TypeError.
AboveHalf_inclusive(score) == score.x >= 500

AboveHalf(score) == score.x > 500

FormatAnswer(a) ==
    [text |-> Get(a.text, JStr(<<>>)),
     highlight |-> Or(a.highlights, Get(a.text, JStr(<<>>))),
     confidence |-> Round2(Get(a.score, Num(0)).x)]

\* [ {...} for a in answers if a.get("score", 0) > 0.5 ]
RECURSIVE FilterAnswers(_)
FilterAnswers(items) ==
    IF items = <<>> THEN [raised |-> FALSE, list |-> <<>>]
    ELSE LET a == Head(items)
             score == Get(a.score, Num(0))
             rest == FilterAnswers(Tail(items))
         IN  IF score.k = "null" THEN [raised |-> TRUE, list |-> <<>>]
             ELSE [raised |-> rest.raised,
                   list |-> (IF AboveHalf(score) THEN <<FormatAnswer(a)>> ELSE <<>>) \o rest.list]

\* answers = result.get("@search.answers"); if answers: response["answers"] = [...]
Answers(result) ==
    IF result.answers.k # "list" \/ result.answers.items = <<>>
    THEN [raised |-> FALSE, present |-> FALSE, list |-> <<>>]
    ELSE [raised |-> FilterAnswers(result.answers.items).raised,
          present |-> TRUE,
          list |-> FilterAnswers(result.answers.items).list]

InternalError == [status |-> 500, raised |-> TRUE, total |-> 0, results |-> <<>>,
                  answers |-> [present |-> FALSE, list |-> <<>>]]

\* The body of search_documents after the backend's result has arrived: any
\* exception of the normalization is caught by `except Exception` (500).
normalize_documents(result) ==
    LET formatted == FormatChunks(result.value)
        answers == Answers(result)
    IN  IF formatted.raised \/ answers.raised THEN InternalError
        ELSE [status |-> 200, raised |-> FALSE,
              total |-> IF result.count.k = "absent" THEN Len(formatted.chunks)
                        ELSE result.count.x,
              results |-> formatted.chunks,
              answers |-> [present |-> answers.present, list |-> answers.list]]

NormalizeDocuments ==
    /\ npc = "input"
    /\ npc' = "done"
    /\ nout' = normalize_documents(nin)
    /\ UNCHANGED <<nin, callvars, filtervars, pharmvars, routevars>>

\* Raw results the backend can send
NumAnswers == 2

ChunkLengths == {0, 1, CHUNK_LIMIT - 1, CHUNK_LIMIT, CHUNK_LIMIT + 1, CHUNK_LIMIT + 500}

TextOfLength(n) == [i \in 1..n |-> IF i % 3 = 0 THEN "a" ELSE IF i % 3 = 1 THEN "b" ELSE "c"]

ChunkInputs == {Absent, Null} \cup {JStr(TextOfLength(n)) : n \in ChunkLengths}

NoList == [k |-> "absent", items |-> <<>>]
NullList == [k |-> "null", items |-> <<>>]
List(items) == [k |-> "list", items |-> items]

CaptionInputs ==
    {NoList, NullList, List(<<>>),
     List(<<[k |-> "null", highlights |-> Absent, text |-> Absent]>>),
     List(<<[k |-> "obj", highlights |-> JStr(<<"h">>), text |-> JStr(<<"t">>)]>>),
     List(<<[k |-> "obj", highlights |-> Null, text |-> JStr(<<"t">>)]>>),
     List(<<[k |-> "obj", highlights |-> Absent, text |-> Absent]>>)}

ScoreInputs == {NumAbsent, NumNull, Num(1234), Num(2876)}

AnswerScores == {NumAbsent, NumNull, Num(400), Num(500), Num(501), Num(600)}

AnswerInputs ==
    {[score |-> sc, text |-> JStr(<<"t">>), highlights |-> h] :
        sc \in AnswerScores, h \in {Absent}}
    \cup {[score |-> Num(600), text |-> JStr(<<"t">>), highlights |-> JStr(<<"h">>)],
          [score |-> Num(612), text |-> Absent, highlights |-> Null]}

RECURSIVE SeqsUpTo(_, _)
SeqsUpTo(S, n) ==
    IF n = 0 THEN {<<>>}
    ELSE LET shorter == SeqsUpTo(S, n - 1)
         IN  shorter \cup {Append(q, x) : q \in shorter, x \in S}

AnswerListInputs == {NoList, NullList} \cup {List(q) : q \in SeqsUpTo(AnswerInputs, NumAnswers)}

PlainDoc == [title |-> JStr(<<"t">>), chunk |-> JStr(<<"c">>), captions |-> NoList,
             score |-> NumAbsent]

\* "@odata.count": absent, or the backend's count
Count(n) == [k |-> "num", x |-> n]

DocInputs ==
    [title : {Absent, Null, JStr(<<"t">>)}, chunk : ChunkInputs,
     captions : CaptionInputs, score : ScoreInputs]

\* Either the documents vary and the answers are plain, or the answers vary.
ResultInputs ==
    [value : {<<>>} \cup {<<d>> : d \in DocInputs},
     answers : {NoList, List(<<>>)},
     count : {NumAbsent, Count(7)}]
    \cup [value : {<<>>, <<PlainDoc>>}, answers : AnswerListInputs, count : {NumAbsent}]

InitDocs ==
    /\ InitCalls({}) /\ InitFilterOff /\ InitPharmOff /\ InitRoutesOff
    /\ npc = "input"
    /\ nin \in ResultInputs
    /\ nout = <<>>

NextDocs == NormalizeDocuments

SpecDocs == InitDocs /\ [][NextDocs]_vars

\* The members of a raw document that are missing or null
IsMissing(v) == v.k \in {"absent", "null"}

(* C12: normalization of a raw result never raises: with any member of a    *)
(* document, caption, answer or score missing or null the formatter         *)
(* completes (the response is the 200 one) and a missing or null title or   *)
(* chunk comes out as the empty string.                                     *)
C12_NormalizationNeverRaises ==
    npc = "done" =>
        /\ ~nout.raised
        /\ nout.status = 200
        /\ Len(nout.results) = Len(nin.value)
        /\ \A i \in 1..Len(nin.value) :
              /\ IsMissing(nin.value[i].title) => nout.results[i].title = JStr(<<>>)
              /\ IsMissing(nin.value[i].chunk) => nout.results[i].content = JStr(<<>>)

(* C13: a chunk longer than 2000 characters is output as its first 2000     *)
(* characters followed by one ellipsis character (2001 in all); a chunk of  *)
(* 2000 characters or fewer is output unchanged.                            *)
C13_ChunkTruncation ==
    npc = "done" /\ ~nout.raised =>
        \A i \in 1..Len(nin.value) :
            nin.value[i].chunk.k = "str" =>
                LET given == nin.value[i].chunk.s
                    content == nout.results[i].content.s
                IN  IF Len(given) > 2000
                    THEN /\ Len(content) = 2001
                         /\ \A j \in 1..2000 : content[j] = given[j]
                         /\ content[2001] = Ellipsis
                    ELSE content = given

C13_Witness ==
    /\ npc = "done"
    /\ ~nout.raised
    /\ Len(nin.value) = 1
    /\ nin.value[1].chunk.k = "str"
    /\ Len(nin.value[1].chunk.s) = 2500
    /\ Len(nout.results[1].content.s) = 2001
    /\ nout.results[1].content.s[2001] = Ellipsis

(* C14: the normalized answers are exactly the backend's answers whose      *)
(* score is strictly greater than 0.5, in the backend's order, each with    *)
(* its score rounded to hundredths: 0.4 and 0.5 are excluded, 0.6 is kept   *)
(* with confidence 0.6.                                                     *)
C14_AnswersAboveHalf ==
    npc = "done" /\ ~nout.raised /\ nin.answers.k = "list" =>
        LET items == nin.answers.items
            kept == {i \in 1..Len(items) : items[i].score.k = "num" /\ items[i].score.x > 500}
            list == nout.answers.list
        IN  /\ Len(list) = Cardinality(kept)
            /\ \A j \in 1..Len(list) :
                  LET a == items[Nth(kept, j)]
                  IN  /\ list[j].confidence * 10 - 5 <= a.score.x
                      /\ a.score.x < list[j].confidence * 10 + 5
                      /\ a.text.k = "str" => list[j].text = a.text
                      /\ list[j].highlight.k = "str"
            /\ nout.answers.present <=> items # <<>>

C14_Witness ==
    /\ npc = "done"
    /\ ~nout.raised
    /\ nin.answers.k = "list"
    /\ Len(nin.answers.items) = 2
    /\ nin.answers.items[1].score = Num(400)
    /\ nin.answers.items[2].score = Num(600)
    /\ nout.answers.present
    /\ Len(nout.answers.list) = 1
    /\ nout.answers.list[1].confidence = 60

-----------------------------------------------------------------------------
(* Two calls at once on the one SearchClient                                *)

\* The handlers share request.app.state.search; each call is a coroutine that
\* yields at its awaits, where the other call's steps can run.
TwoCalls == {1, 2}

InitConc == InitCalls(TwoCalls) /\ InitFilterOff /\ InitPharmOff /\ InitDocsOff /\ InitRoutesOff

NextConc ==
    \/ \E c \in TwoCalls : Invoke(c, "search")
    \/ \E c \in TwoCalls : InvokeAuthFails(c, "search")
    \/ \E c \in TwoCalls, st \in {200, 500} : Respond(c, st, 1)
    \/ \E c \in TwoCalls : TimeoutException(c)
    \/ \E c \in TwoCalls : Wake(c)

SpecConc == InitConc /\ [][NextConc]_vars

(* C15: with two calls running concurrently on the same client, every HTTP  *)
(* attempt of a call, retries included, carries the bearer token that this  *)
(* same call acquired.                                                      *)
C15_RequestsCarryOwnToken ==
    \A c \in TwoCalls : \A i \in 1..Len(reqs[c]) : reqs[c][i].token = TokenOf(c)

-----------------------------------------------------------------------------
(* Cancellation of the task that runs a call                                *)

RaisedCancelled == [kind |-> "CancelledError", status |-> 0, detail |-> NoDetail,
                    value |-> NoDoc]

\* What the call had done when the cancellation arrived.
CancelledAt(c) ==
    [at |-> pc[c], nreqs |-> Len(reqs[c]), nsleeps |-> Len(sleeps[c]), nhist |-> Len(hist[c])]

\* Variant: the cancellation is handled like a transport error of the attempt.
Cancel_asNetworkError(c) ==
    /\ pc[c] \in {"http", "sleep"}
    /\ cancelled[c] = NotCancelled
    /\ cancelled' = [cancelled EXCEPT ![c] = CancelledAt(c)]
    /\ last_error' = [last_error EXCEPT ![c] = Record(@, NetworkError(1))]
    /\ Continue(c, last_error'[c])
    /\ UNCHANGED <<method, sleeps, hist, tokres, hdr, filtervars, handlervars>>

\* asyncio.CancelledError is thrown into the coroutine at the await it is
\* suspended in (the post/get or the sleep).  It is a BaseException, neither
\* httpx.TimeoutException nor httpx.HTTPError, so no except clause of the loop
\* takes it and it leaves the call.
Cancel(c) ==
    /\ pc[c] \in {"http", "sleep"}
    /\ cancelled[c] = NotCancelled
    /\ cancelled' = [cancelled EXCEPT ![c] = CancelledAt(c)]
    /\ Finish(c, RaisedCancelled)
    /\ UNCHANGED <<method, last_error, sleeps, hist, tokres, hdr, filtervars, handlervars>>

NextCancel ==
    \/ Next
    \/ \E c \in Calls : Cancel(c)

SpecCancel == Init /\ [][NextCancel]_vars

(* C16: a cancellation that arrives while an HTTP attempt is in flight or   *)
(* a backoff sleep is pending ends the call with the cancellation; no       *)
(* further attempt is sent, no further sleep is started and nothing more is *)
(* received.                                                                *)
C16_CancellationEndsCall ==
    \A c \in Calls :
        cancelled[c] # NotCancelled =>
            /\ pc[c] = "done"
            /\ outcome[c] = RaisedCancelled
            /\ Len(reqs[c]) = cancelled[c].nreqs
            /\ Len(sleeps[c]) = cancelled[c].nsleeps
            /\ Len(hist[c]) = cancelled[c].nhist

C16_Witness ==
    /\ cancelled[1].at = "sleep"
    /\ cancelled[1].nreqs = 2
    /\ cancelled[1].nsleeps = 2
    /\ outcome[1] = RaisedCancelled
    /\ Len(reqs[1]) = 2

-----------------------------------------------------------------------------
(* The route handlers around a call: what they answer when the call ends    *)
(* (routes/drugs.py, routes/pharmacies.py, routes/documents.py).  A body is *)
(* a sequence of pieces; the literal texts are written without diacritics.  *)

Endpoints == {"search_drugs", "get_drug_detail", "search_pharmacies", "get_pharmacy_detail",
              "search_documents"}

\* The SearchClient method each handler awaits.
MethodOf(ep) ==
    CASE ep = "search_drugs" -> "search"
      [] ep = "get_drug_detail" -> "get_document"
      [] ep = "search_pharmacies" -> "search"
      [] ep = "get_pharmacy_detail" -> "get_document"
      [] ep = "search_documents" -> "hybrid_search"

\* A piece of a body that is a literal of the handler's source.
Literal(text) == [src |-> text, id |-> 0]

\* A piece of a body that is the path parameter of the request.
PathParam == [src |-> "path parameter", id |-> 0]

\* A piece of a body that is the formatted document(s) of the decoded result.
Formatted(v) == [src |-> "formatted", id |-> v.doc]

\* `except SearchError`: content={"error": ...}
SearchErrorBody(ep) ==
    CASE ep = "search_drugs" -> <<Literal("Vyhledavani leku selhalo, zkuste to prosim znovu.")>>
      [] ep = "get_drug_detail" ->
            <<Literal("Nacteni detailu leku selhalo, zkuste to prosim znovu.")>>
      [] ep = "search_pharmacies" ->
            <<Literal("Vyhledavani lekaren selhalo, zkuste to prosim znovu.")>>
      [] ep = "get_pharmacy_detail" ->
            <<Literal("Nacteni detailu lekarny selhalo, zkuste to prosim znovu.")>>
      [] ep = "search_documents" ->
            <<Literal("Vyhledavani v SPC dokumentech selhalo, zkuste to prosim znovu.")>>

\* Variant: the error's status and detail are passed on to the caller.
UpstreamFailure_passedOn(ep, e) ==
    [status |-> e.status, body |-> SearchErrorBody(ep) \o <<e.detail>>]

\* `except SearchError as e: ... return JSONResponse(status_code=502, ...)`;
\* e.status and e.detail go to the log only.
UpstreamFailure(ep, e) == [status |-> 502, body |-> SearchErrorBody(ep)]

\* `except Exception as e: ... return JSONResponse(status_code=500, ...)`
InternalFailure == [status |-> 500, body |-> <<Literal("Interni chyba serveru.")>>]

\* `if doc is None: return JSONResponse(status_code=404, ...)`
NotFound(ep) ==
    [status |-> 404,
     body |-> IF ep = "get_drug_detail"
              THEN <<Literal("Lecivy pripravek s kodem "), PathParam, Literal(" nebyl nalezen.")>>
              ELSE <<Literal("Lekarna s kodem "), PathParam, Literal(" nebyla nalezena.")>>]

\* The handler's answer for the way its call ended.
HandlerResponse(ep, out) ==
    CASE out.kind = "SearchError" -> UpstreamFailure(ep, out)
      [] out.kind \in {"AuthError", "JSONDecodeError"} -> InternalFailure
      [] out.kind = "not_found" -> NotFound(ep)
      [] out.kind = "returned" -> [status |-> 200, body |-> <<Formatted(out.value)>>]

\* The handler resumes after its awaited call and returns its response.
Reply(c) ==
    /\ pc[c] = "done"
    /\ endpoint[c] \in Endpoints
    /\ response[c] = NoResponse
    /\ outcome[c].kind \in {"SearchError", "AuthError", "JSONDecodeError", "not_found", "returned"}
    /\ response' = [response EXCEPT ![c] = HandlerResponse(endpoint[c], outcome[c])]
    /\ UNCHANGED <<endpoint, callvars, filtervars, pharmvars, docvars>>

InitEndpoint ==
    /\ InitCalls({1}) /\ InitFilterOff /\ InitPharmOff /\ InitDocsOff
    /\ \E ep \in Endpoints : endpoint = [c \in Calls |-> IF c = 1 THEN ep ELSE "none"]
    /\ response = [c \in Calls |-> NoResponse]

NextEndpoint ==
    \/ \E c \in Calls : Invoke(c, MethodOf(endpoint[c]))
    \/ \E c \in Calls : InvokeAuthFails(c, MethodOf(endpoint[c]))
    \/ \E c \in Calls, st \in Statuses, b \in WireBodies : Respond(c, st, b)
    \/ \E c \in Calls : TimeoutException(c)
    \/ \E c \in Calls, e \in ExcIds : HTTPError(c, e)
    \/ \E c \in Calls : Wake(c)
    \/ \E c \in Calls : Reply(c)

SpecEndpoint == InitEndpoint /\ [][NextEndpoint]_vars

\* The pieces a body can take from an error: the response text, the
\* exception text and the two literal details of search_client.py.
IsErrorText(piece) ==
    \/ piece.src \in {"resp.text", "str(e)"}
    \/ piece \in {RequestTimeout, AllRetriesExhausted}

(* C17: for each endpoint the response to a SearchError is 502 with the     *)
(* endpoint's fixed generic body, whatever the error's status and detail,   *)
(* and the body never contains the detail; any other exception gives 500    *)
(* with the fixed generic body, which contains no exception text.           *)
C17_ErrorResponsesAreGeneric ==
    \A c \in Calls :
        response[c] # NoResponse =>
            /\ outcome[c].kind = "SearchError" =>
                  /\ response[c].status = 502
                  /\ response[c].body = SearchErrorBody(endpoint[c])
                  /\ Len(response[c].body) = 1
                  /\ \A i \in 1..Len(response[c].body) :
                        /\ response[c].body[i] # outcome[c].detail
                        /\ ~IsErrorText(response[c].body[i])
            /\ outcome[c].kind \in {"AuthError", "JSONDecodeError"} =>
                  /\ response[c].status = 500
                  /\ response[c].body = <<Literal("Interni chyba serveru.")>>

C17_Witness ==
    /\ endpoint[1] = "search_documents"
    /\ outcome[1].kind = "SearchError"
    /\ outcome[1].status = 503
    /\ outcome[1].detail = Text(2)
    /\ response[1].status = 502
    /\ response[1].body = <<Literal("Vyhledavani v SPC dokumentech selhalo, zkuste to prosim znovu.")>>

-----------------------------------------------------------------------------
(* routes/pharmacies.py: search_pharmacies up to its first await            *)

\* Python truthiness of `bool | None`: None and False are falsy.
TruthyBool(a) == a.some /\ a.b

\* Python truthiness of the `type` parameter, a str | None given as a word.
TruthyWord(a) == a.some /\ a.w # ""

\* `if not q and not city and not emergency and not mail_order and not
\* pharmacy_type and not postal_code`
NoCriterion(args) ==
    /\ ~Truthy(args.q)
    /\ ~Truthy(args.city)
    /\ ~TruthyBool(args.emergency)
    /\ ~TruthyBool(args.mail_order)
    /\ ~TruthyWord(args.pharmacy_type)
    /\ ~Truthy(args.postal_code)

\* return JSONResponse(status_code=400, ...)
BadRequest == [kind |-> "400", search |-> NoneArg, filter |-> NoneArg, query_type |-> ""]

\* The arguments of search_client.search: search=q or "*", filter=filters,
\* query_type="semantic" if q else "simple".
SearchArguments(args) ==
    [kind |-> "search",
     search |-> IF Truthy(args.q) THEN args.q ELSE Str(<<"*">>),
     filter |-> build_pharmacy_filters(args.city, args.emergency, args.mail_order,
                                       args.pharmacy_type, args.postal_code),
     query_type |-> IF Truthy(args.q) THEN "semantic" ELSE "simple"]

\* The handler from its entry to its return (400) or to the first await of
\* search_client.search: the token is acquired (here: successfully) and
\* attempt 0 is sent.
SearchPharmacies ==
    /\ ppc = "input"
    /\ pc[1] = "idle"
    /\ ppc' = "answered"
    /\ IF NoCriterion(pin)
       THEN /\ pout' = BadRequest
            /\ UNCHANGED callvars
       ELSE /\ pout' = SearchArguments(pin)
            /\ method' = [method EXCEPT ![1] = "search"]
            /\ tokres' = [tokres EXCEPT ![1] = Append(@, "ok")]
            /\ hdr' = TokenOf(1)
            /\ Send(1, 0, TokenOf(1))
            /\ UNCHANGED <<last_error, sleeps, hist, cancelled>>
    /\ UNCHANGED <<pin, filtervars, docvars, routevars>>

QueryInputs == {NoneArg, Str(<<>>), Str(<<"b">>)}

InitPharmacy ==
    /\ InitCalls({1}) /\ InitFilterOff /\ InitDocsOff /\ InitRoutesOff
    /\ ppc = "input"
    /\ pin \in [q : QueryInputs,
                city : QueryInputs,
                emergency : BoolInputs,
                mail_order : BoolInputs,
                pharmacy_type : PharmacyTypeInputs,
                postal_code : {NoneArg, Str(<<>>), Str(<<"1">>)}]
    /\ pout = NoPharmacyResult

NextPharmacy == SearchPharmacies

SpecPharmacy == InitPharmacy /\ [][NextPharmacy]_vars

(* C18: search_pharmacies answers 400, without acquiring a token or sending *)
(* a request, if and only if q is empty and the filter builder returns no   *)
(* clause for the given parameters; every other request (an explicit        *)
(* boolean false included) is forwarded with the builder's filter.          *)
C18_RejectedIffNoCriterion ==
    ppc = "answered" =>
        LET filters == build_pharmacy_filters(pin.city, pin.emergency, pin.mail_order,
                                              pin.pharmacy_type, pin.postal_code)
            nothing == ~Truthy(pin.q) /\ ~filters.some
        IN  /\ pout.kind = "400" <=> nothing
            /\ pout.kind = "400" => tokres[1] = <<>> /\ reqs[1] = <<>>
            /\ ~nothing => /\ pout.kind = "search"
                           /\ pout.filter = filters
                           /\ Len(reqs[1]) = 1

=============================================================================
